---- MODULE Spec2Model ----
(***************************************************************************)
(* The Watson stack VM (pkg/vm/execution.go) as a state machine.           *)
(*                                                                         *)
(* A Go int64/uint64/float64 is kept at its full width as four 16-bit      *)
(* limbs, least significant first, holding the 64-bit pattern.  Slices and *)
(* maps are references into a heap, so that sharing a backing array or a   *)
(* map between two values is a state the model can be in.                  *)
(***************************************************************************)
EXTENDS Integers, Sequences, FiniteSets, TLC

\* ------------------------------------------------------------------ bounds
\* len(vm.stack): the capacity the VM was constructed with.
Capacity == 3
\* Feed is explored while the stack's Weight stays within MaxWeight.
MaxWeight == 3

\* ------------------------------------------------------- 64-bit arithmetic
B == 2^16

Zero64 == <<0, 0, 0, 0>>
One64 == <<1, 0, 0, 0>>
MinInt64 == <<0, 0, 0, 32768>>
MaxInt64 == <<65535, 65535, 65535, 32767>>

\* a + b on int64: the carries ripple through the limbs, the last is dropped.
Add64(a, b) ==
  LET s1 == a[1] + b[1]
      s2 == a[2] + b[2] + (s1 \div B)
      s3 == a[3] + b[3] + (s2 \div B)
      s4 == a[4] + b[4] + (s3 \div B)
  IN  <<s1 % B, s2 % B, s3 % B, s4 % B>>

Not64(a) == [i \in 1..4 |-> (B - 1) - a[i]]

\* -a on int64.
Neg64(a) == Add64(Not64(a), One64)

\* The sign bit of an int64.
IsNeg64(a) == a[4] >= 32768

\* The int64 of a small integer literal.
I64(n) ==
  IF n >= 0 THEN <<n % B, (n \div B) % B, 0, 0>>
  ELSE Neg64(<<(-n) % B, ((-n) \div B) % B, 0, 0>>)

\* The integer an int64 stands for, where it fits in a limb.
IsSmall64(a) ==
  \/ a[2] = 0 /\ a[3] = 0 /\ a[4] = 0 /\ a[1] < 32768
  \/ a[2] = B - 1 /\ a[3] = B - 1 /\ a[4] = B - 1 /\ a[1] >= 32768

ToInt(a) == IF a[1] < 32768 THEN a[1] ELSE a[1] - B

\* a << k for a count 0 <= k < 64.
Shl64(a, k) ==
  LET q == k \div 16
      r == k % 16
      src(j) == IF j >= 1 THEN a[j] ELSE 0
  IN  [i \in 1..4 |->
         ((src(i - q) % (2^(16 - r))) * (2^r)) + (src(i - q - 1) \div (2^(16 - r)))]

\* a >> k, arithmetic, for a count 0 <= k < 64.
Sar64(a, k) ==
  LET q == k \div 16
      r == k % 16
      fill == IF IsNeg64(a) THEN B - 1 ELSE 0
      src(j) == IF j <= 4 THEN a[j] ELSE fill
  IN  [i \in 1..4 |->
         (src(i + q) \div (2^r)) + ((src(i + q + 1) % (2^r)) * (2^(16 - r)))]

\* A non-negative int64 used as a shift count: counts of 64 and more all act alike.
ShiftCount(b) ==
  IF b[2] = 0 /\ b[3] = 0 /\ b[4] = 0 /\ b[1] < 64 THEN b[1] ELSE 64

\* Go's a << b for int64 a and a non-negative count b.
GoShl(a, b) == IF ShiftCount(b) >= 64 THEN Zero64 ELSE Shl64(a, ShiftCount(b))

\* Go's a >> c for int64 a and a non-negative count c.
GoShr(a, c) ==
  IF ShiftCount(c) >= 64
  THEN (IF IsNeg64(a) THEN I64(-1) ELSE Zero64)
  ELSE Sar64(a, ShiftCount(c))

\* byte(n): the low eight bits.
Byte(n) == n[1] % 256

\* ------------------------------------------------------------------ values
Ops ==
  {"Inew", "Iinc", "Ishl", "Iadd", "Ineg", "Isht", "Itof", "Itou", "Finf", "Fnan",
   "Fneg", "Snew", "Sadd", "Onew", "Oadd", "Anew", "Aadd", "Bnew", "Bneg", "Nnew",
   "Gdup", "Gpop", "Gswp"}

ErrNil == "nil"
ErrStackEmpty == "stack is empty"
ErrMaximumStackSizeExceeded == "maximum stack size exceeded"
ErrTypeMismatch == "type mismatch"
\* A run-time panic of the Go program: the call does not return.
Panic == "panic"

\* A *types.Value: its Kind and the payload of that kind.  ref/len are the
\* slice header ([]byte, []*Value) or the map reference; ref 0 is no storage.
MkValue(k, bits, bool, ref, len) ==
  [kind |-> k, bits |-> bits, bool |-> bool, ref |-> ref, len |-> len]

\* The nil *types.Value of an unused stack slot or backing-array slot.
Null == MkValue("null", Zero64, FALSE, 0, 0)

NewIntValue(n) == MkValue("Int", n, FALSE, 0, 0)
NewUintValue(n) == MkValue("Uint", n, FALSE, 0, 0)
NewFloatValue(bits) == MkValue("Float", bits, FALSE, 0, 0)
NewStringValue(ref, len) == MkValue("String", Zero64, FALSE, ref, len)
NewObjectValue(ref) == MkValue("Object", Zero64, FALSE, ref, 0)
NewArrayValue(ref, len) == MkValue("Array", Zero64, FALSE, ref, len)
NewBoolValue(b) == MkValue("Bool", Zero64, b, 0, 0)
NewNilValue == MkValue("Nil", Zero64, FALSE, 0, 0)

\* math.Inf(1) and math.NaN() as float64 bit patterns.
InfBits == <<0, 0, 0, 32752>>
NaNBits == <<1, 0, 0, 32760>>
\* -x on a float64 flips the sign bit.
FlipSign(bits) == [bits EXCEPT ![4] = (bits[4] + 32768) % B]

\* -------------------------------------------------------------------- heap
\* One heap object: the backing array of a []byte ("bytes", data holds cap
\* bytes), the backing array of a []*Value ("ptrs", data holds cap values) or
\* a map[string]*Value ("map", m maps key bytes to values).
Free == [t |-> "free", data |-> <<>>, m |-> <<>>]
Refs == 1..(2 * MaxWeight + 2)
EmptyHeap == [r \in Refs |-> Free]

\* The address the allocator hands out.
Alloc(h) == CHOOSE r \in Refs : h[r].t = "free" /\ \A q \in Refs : h[q].t = "free" => r <= q

Cap(h, ref) == IF ref = 0 THEN 0 ELSE Len(h[ref].data)

Pad(n, x) == [i \in 1..n |-> x]

\* The capacity append picks when a []byte of capacity old is full
\* (doubling, rounded up to the allocator's 8-byte size classes).
GrowBytes(old) == 8 * (((IF old = 0 THEN 1 ELSE 2 * old) + 7) \div 8)
\* The capacity append picks when a []*Value of capacity old is full.
GrowPtrs(old) == IF old = 0 THEN 1 ELSE 2 * old

\* append(s, x): in place when the backing array has room, else into a new one.
\* Returns the heap and the new slice header.
GoAppend(h, t, ref, len, x, zero) ==
  IF len < Cap(h, ref)
  THEN [heap |-> [h EXCEPT ![ref].data[len + 1] = x], ref |-> ref, len |-> len + 1]
  ELSE LET r == Alloc(h)
           newcap == IF t = "bytes" THEN GrowBytes(Cap(h, ref)) ELSE GrowPtrs(Cap(h, ref))
           old == IF ref = 0 THEN <<>> ELSE SubSeq(h[ref].data, 1, len)
       IN  [heap |-> [h EXCEPT ![r] = [t |-> t, m |-> <<>>,
                                       data |-> old \o <<x>> \o Pad(newcap - len - 1, zero)]],
            ref |-> r, len |-> len + 1]

\* The elements of a String or Array value that its slice header shows.
Elems(h, v) == IF v.ref = 0 THEN <<>> ELSE SubSeq(h[v.ref].data, 1, v.len)

\* An ordering of a finite set of map keys (a map is walked in some order).
RECURSIVE SetToSeq(_)
SetToSeq(S) ==
  IF S = {} THEN <<>>
  ELSE LET x == CHOOSE y \in S : TRUE IN <<x>> \o SetToSeq(S \ {x})

\* Value.DeepCopy: a new value with storage of its own; the elements of an
\* Array and the values of an Object are copied the same way.
RECURSIVE DeepCopy(_, _)
RECURSIVE CopyElems(_, _, _)
RECURSIVE CopyEntries(_, _, _, _)
DeepCopy(h, v) ==
  CASE v.kind = "String" ->
         IF v.len = 0 THEN [heap |-> h, v |-> NewStringValue(0, 0)]
         ELSE LET r == Alloc(h)
              IN  [heap |-> [h EXCEPT ![r] = [t |-> "bytes", m |-> <<>>, data |-> Elems(h, v)]],
                   v |-> NewStringValue(r, v.len)]
    [] v.kind = "Array" ->
         IF v.len = 0 THEN [heap |-> h, v |-> NewArrayValue(0, 0)]
         ELSE LET r == Alloc(h)
                  h1 == [h EXCEPT ![r] = [t |-> "ptrs", m |-> <<>>, data |-> Pad(v.len, Null)]]
                  c == CopyElems(h1, Elems(h, v), <<>>)
              IN  [heap |-> [c.heap EXCEPT ![r].data = c.out], v |-> NewArrayValue(r, v.len)]
    [] v.kind = "Object" ->
         LET r == Alloc(h)
             h1 == [h EXCEPT ![r] = [t |-> "map", m |-> <<>>, data |-> <<>>]]
             c == CopyEntries(h1, h[v.ref].m, SetToSeq(DOMAIN h[v.ref].m), <<>>)
         IN  [heap |-> [c.heap EXCEPT ![r].m = c.out], v |-> NewObjectValue(r)]
    [] OTHER -> [heap |-> h, v |-> v]

CopyElems(h, xs, out) ==
  IF xs = <<>> THEN [heap |-> h, out |-> out]
  ELSE LET c == DeepCopy(h, Head(xs))
       IN  CopyElems(c.heap, Tail(xs), Append(out, c.v))

CopyEntries(h, m, keys, out) ==
  IF keys = <<>> THEN [heap |-> h, out |-> out]
  ELSE LET k == Head(keys)
           c == DeepCopy(h, m[k])
       IN  CopyEntries(c.heap, m, Tail(keys), (k :> c.v) @@ out)

\* What a value holds, storage aside: the bytes of a String, the elements of
\* an Array, the entries of an Object, each taken the same way.
MkContent(kind, bits, bool, bytes, elems, entries) ==
  [kind |-> kind, bits |-> bits, bool |-> bool, bytes |-> bytes, elems |-> elems,
   entries |-> entries]

RECURSIVE Content(_, _)
Content(h, v) ==
  CASE v.kind = "String" -> MkContent("String", Zero64, FALSE, Elems(h, v), <<>>, <<>>)
    [] v.kind = "Array" ->
         MkContent("Array", Zero64, FALSE, <<>>,
                   [i \in 1..v.len |-> Content(h, h[v.ref].data[i])], <<>>)
    [] v.kind = "Object" ->
         MkContent("Object", Zero64, FALSE, <<>>, <<>>,
                   [k \in DOMAIN h[v.ref].m |-> Content(h, h[v.ref].m[k])])
    [] OTHER -> MkContent(v.kind, v.bits, v.bool, <<>>, <<>>, <<>>)

\* ------------------------------------------------------------ the machine
\* A VM is [stack, sp, heap]: vm.stack (Capacity slots), vm.sp, and the Go heap.
NewVM ==
  [stack |-> [i \in 0..(Capacity - 1) |-> Null], sp |-> -1, heap |-> EmptyHeap]

\* The heap objects the stack reaches, each once, in the order a walk from
\* slot 0 upward meets them.
RECURSIVE Visit(_, _, _)
RECURSIVE VisitSeq(_, _, _)
Visit(h, v, acc) ==
  IF v.kind \notin {"String", "Array", "Object"} \/ v.ref = 0 THEN acc
  ELSE IF \E i \in 1..Len(acc) : acc[i] = v.ref THEN acc
  ELSE CASE v.kind = "String" -> acc \o <<v.ref>>
         [] v.kind = "Array" -> VisitSeq(h, h[v.ref].data, acc \o <<v.ref>>)
         [] v.kind = "Object" ->
              LET keys == SetToSeq(DOMAIN h[v.ref].m)
              IN  VisitSeq(h, [i \in 1..Len(keys) |-> h[v.ref].m[keys[i]]],
                           acc \o <<v.ref>>)

VisitSeq(h, vs, acc) ==
  IF vs = <<>> THEN acc ELSE VisitSeq(h, Tail(vs), Visit(h, Head(vs), acc))

Moved(order, v) ==
  IF v.ref = 0 THEN v ELSE [v EXCEPT !.ref = CHOOSE i \in 1..Len(order) : order[i] = v.ref]

\* The garbage collector: storage no stack slot reaches is freed.  An address
\* carries no meaning in Go, so the live objects are kept at the addresses
\* 1, 2, ... in the order the stack reaches them; what is shared stays shared.
Collect(m) ==
  LET order == VisitSeq(m.heap, [i \in 1..Capacity |-> m.stack[i - 1]], <<>>)
      At(r) ==
        LET o == m.heap[order[r]]
        IN  [t |-> o.t,
             data |-> [i \in 1..Len(o.data) |->
                         IF o.t = "ptrs" THEN Moved(order, o.data[i]) ELSE o.data[i]],
             m |-> [k \in DOMAIN o.m |-> Moved(order, o.m[k])]]
  IN  [m EXCEPT !.stack = [i \in 0..(Capacity - 1) |-> Moved(order, m.stack[i])],
                !.heap = [r \in Refs |-> IF r <= Len(order) THEN At(r) ELSE Free]]

push(m, v) ==
  IF Capacity - 1 <= m.sp
  THEN [m |-> m, err |-> ErrMaximumStackSizeExceeded]
  ELSE [m |-> [m EXCEPT !.sp = m.sp + 1, !.stack[m.sp + 1] = v], err |-> ErrNil]

pushInt(m, val) == push(m, NewIntValue(val))
pushUint(m, val) == push(m, NewUintValue(val))
pushFloat(m, val) == push(m, NewFloatValue(val))
pushString(m, ref, len) == push(m, NewStringValue(ref, len))
pushObject(m, ref) == push(m, NewObjectValue(ref))
pushArray(m, ref, len) == push(m, NewArrayValue(ref, len))
pushBool(m, val) == push(m, NewBoolValue(val))
pushNil(m) == push(m, NewNilValue)

\* pop leaving the popped value in its slot.
popLeavesSlot(m) ==
  IF m.sp < 0
  THEN [m |-> m, v |-> Null, err |-> ErrStackEmpty]
  ELSE [m |-> [m EXCEPT !.sp = m.sp - 1], v |-> m.stack[m.sp], err |-> ErrNil]

\* pop without the check for an empty stack.
popUnchecked(m) ==
  [m |-> [m EXCEPT !.sp = m.sp - 1], v |-> IF m.sp < 0 THEN Null ELSE m.stack[m.sp],
   err |-> ErrNil]

pop(m) ==
  IF m.sp < 0
  THEN [m |-> m, v |-> Null, err |-> ErrStackEmpty]
  ELSE [m |-> [m EXCEPT !.stack[m.sp] = Null, !.sp = m.sp - 1],
        v |-> m.stack[m.sp], err |-> ErrNil]

\* The Kind checked before popping: a mismatch leaves the value in place.
popKindPeek(m, kind) ==
  IF m.sp >= 0 /\ m.stack[m.sp].kind # kind
  THEN [m |-> m, v |-> Null, err |-> ErrTypeMismatch]
  ELSE pop(m)

\* pop, then the check of the Kind: the value stays popped on a mismatch.
popKind(m, kind) ==
  LET r == pop(m)
  IN  IF r.err # ErrNil THEN r
      ELSE IF r.v.kind # kind THEN [r EXCEPT !.err = ErrTypeMismatch]
      ELSE r

popInt(m) == popKind(m, "Int")
popFloat(m) == popKind(m, "Float")
popString(m) == popKind(m, "String")
popObject(m) == popKind(m, "Object")
popArray(m) == popKind(m, "Array")
popBool(m) == popKind(m, "Bool")

Fail(r) == [m |-> r.m, err |-> r.err]

\* ------------------------------------------------------------ the opcodes
feedInew(m) == pushInt(m, Zero64)

\* An increment that stops at the maximum int64 instead of wrapping.
feedIincSaturating(m) ==
  LET v == popInt(m)
  IN  IF v.err # ErrNil THEN Fail(v)
      ELSE IF v.v.bits = MaxInt64 THEN pushInt(v.m, MaxInt64)
      ELSE pushInt(v.m, Add64(v.v.bits, One64))

feedIinc(m) ==
  LET v == popInt(m)
  IN  IF v.err # ErrNil THEN Fail(v) ELSE pushInt(v.m, Add64(v.v.bits, One64))

feedIshl(m) ==
  LET v == popInt(m)
  IN  IF v.err # ErrNil THEN Fail(v) ELSE pushInt(v.m, GoShl(v.v.bits, One64))

feedIadd(m) ==
  LET b == popInt(m)
      a == popInt(b.m)
  IN  IF b.err # ErrNil THEN Fail(b)
      ELSE IF a.err # ErrNil THEN Fail(a)
      ELSE pushInt(a.m, Add64(a.v.bits, b.v.bits))

feedIneg(m) ==
  LET v == popInt(m)
  IN  IF v.err # ErrNil THEN Fail(v) ELSE pushInt(v.m, Neg64(v.v.bits))

\* A shift that takes the value on top as the shifted value and the one below
\* it as the count.
feedIshtSwapped(m) ==
  LET a == popInt(m)
      b == popInt(a.m)
  IN  IF a.err # ErrNil THEN Fail(a)
      ELSE IF b.err # ErrNil THEN Fail(b)
      ELSE IF ~IsNeg64(b.v.bits) THEN pushInt(b.m, GoShl(a.v.bits, b.v.bits))
      ELSE IF IsNeg64(Neg64(b.v.bits)) THEN [m |-> b.m, err |-> Panic]
      ELSE pushInt(b.m, GoShr(a.v.bits, Neg64(b.v.bits)))

\* a >> -b panics when -b is negative, which is when b is the minimum int64.
feedIsht(m) ==
  LET b == popInt(m)
      a == popInt(b.m)
  IN  IF b.err # ErrNil THEN Fail(b)
      ELSE IF a.err # ErrNil THEN Fail(a)
      ELSE IF ~IsNeg64(b.v.bits) THEN pushInt(a.m, GoShl(a.v.bits, b.v.bits))
      ELSE IF IsNeg64(Neg64(b.v.bits)) THEN [m |-> a.m, err |-> Panic]
      ELSE pushInt(a.m, GoShr(a.v.bits, Neg64(b.v.bits)))

feedItof(m) ==
  LET n == popInt(m)
  IN  IF n.err # ErrNil THEN Fail(n) ELSE pushFloat(n.m, n.v.bits)

\* A conversion that keeps the magnitude of the Int, not its bit pattern.
feedItouMagnitude(m) ==
  LET n == popInt(m)
  IN  IF n.err # ErrNil THEN Fail(n)
      ELSE pushUint(n.m, IF IsNeg64(n.v.bits) THEN Neg64(n.v.bits) ELSE n.v.bits)

feedItou(m) ==
  LET n == popInt(m)
  IN  IF n.err # ErrNil THEN Fail(n) ELSE pushUint(n.m, n.v.bits)

feedFinf(m) == pushFloat(m, InfBits)

feedFnan(m) == pushFloat(m, NaNBits)

feedFneg(m) ==
  LET x == popFloat(m)
  IN  IF x.err # ErrNil THEN Fail(x) ELSE pushFloat(x.m, FlipSign(x.v.bits))

feedSnew(m) == pushString(m, 0, 0)

\* Sadd keeping an Int outside 0..255 at the nearer end of the range.
feedSaddClamped(m) ==
  LET n == popInt(m)
      s == popString(n.m)
      b == IF IsNeg64(n.v.bits) THEN 0
           ELSE IF n.v.bits[2] = 0 /\ n.v.bits[3] = 0 /\ n.v.bits[4] = 0 /\ n.v.bits[1] < 256
                THEN n.v.bits[1] ELSE 255
      t == GoAppend(s.m.heap, "bytes", s.v.ref, s.v.len, b, 0)
  IN  IF n.err # ErrNil THEN Fail(n)
      ELSE IF s.err # ErrNil THEN Fail(s)
      ELSE pushString([s.m EXCEPT !.heap = t.heap], t.ref, t.len)

feedSadd(m) ==
  LET n == popInt(m)
      s == popString(n.m)
      t == GoAppend(s.m.heap, "bytes", s.v.ref, s.v.len, Byte(n.v.bits), 0)
  IN  IF n.err # ErrNil THEN Fail(n)
      ELSE IF s.err # ErrNil THEN Fail(s)
      ELSE pushString([s.m EXCEPT !.heap = t.heap], t.ref, t.len)

feedOnew(m) ==
  LET r == Alloc(m.heap)
  IN  pushObject([m EXCEPT !.heap[r] = [t |-> "map", m |-> <<>>, data |-> <<>>]], r)

\* Oadd keeping the entry a key already has.
feedOaddFirstWins(m) ==
  LET v == pop(m)
      k == popString(v.m)
      o == popObject(k.m)
      c == DeepCopy(o.m.heap, v.v)
      key == Elems(o.m.heap, k.v)
  IN  IF v.err # ErrNil THEN Fail(v)
      ELSE IF k.err # ErrNil THEN Fail(k)
      ELSE IF o.err # ErrNil THEN Fail(o)
      ELSE pushObject(
             [o.m EXCEPT !.heap = [c.heap EXCEPT ![o.v.ref].m = @ @@ (key :> c.v)]],
             o.v.ref)

feedOadd(m) ==
  LET v == pop(m)
      k == popString(v.m)
      o == popObject(k.m)
      c == DeepCopy(o.m.heap, v.v)
      key == Elems(o.m.heap, k.v)
  IN  IF v.err # ErrNil THEN Fail(v)
      ELSE IF k.err # ErrNil THEN Fail(k)
      ELSE IF o.err # ErrNil THEN Fail(o)
      ELSE pushObject(
             [o.m EXCEPT !.heap = [c.heap EXCEPT ![o.v.ref].m = (key :> c.v) @@ @]],
             o.v.ref)

feedAnew(m) == pushArray(m, 0, 0)

feedAadd(m) ==
  LET x == pop(m)
      a == popArray(x.m)
      c == DeepCopy(a.m.heap, x.v)
      t == GoAppend(c.heap, "ptrs", a.v.ref, a.v.len, c.v, Null)
  IN  IF x.err # ErrNil THEN Fail(x)
      ELSE IF a.err # ErrNil THEN Fail(a)
      ELSE pushArray([a.m EXCEPT !.heap = t.heap], t.ref, t.len)

feedBnew(m) == pushBool(m, FALSE)

feedBneg(m) ==
  LET v == popBool(m)
  IN  IF v.err # ErrNil THEN Fail(v) ELSE pushBool(v.m, ~v.v.bool)

feedNnew(m) == pushNil(m)

\* Gdup giving up on a full stack with the value popped.
feedGdupLeavesPopped(m) ==
  LET v == pop(m)
      p == push(v.m, v.v)
      c == DeepCopy(p.m.heap, v.v)
  IN  IF v.err # ErrNil THEN Fail(v)
      ELSE IF Capacity - 1 <= m.sp THEN [m |-> v.m, err |-> ErrMaximumStackSizeExceeded]
      ELSE push([p.m EXCEPT !.heap = c.heap], c.v)

\* Gdup pushing the popped value twice, without DeepCopy.
feedGdupShared(m) ==
  LET v == pop(m)
      p == push(v.m, v.v)
  IN  IF v.err # ErrNil THEN Fail(v)
      ELSE IF p.err # ErrNil THEN p
      ELSE push(p.m, v.v)

feedGdup(m) ==
  LET v == pop(m)
      p == push(v.m, v.v)
      c == DeepCopy(p.m.heap, v.v)
  IN  IF v.err # ErrNil THEN Fail(v)
      ELSE IF p.err # ErrNil THEN p
      ELSE push([p.m EXCEPT !.heap = c.heap], c.v)

feedGpop(m) == Fail(pop(m))

\* Gswp pushing the two values back in the order they were in.
feedGswpBack(m) ==
  LET a == pop(m)
      b == pop(a.m)
      p == push(b.m, b.v)
  IN  IF a.err # ErrNil THEN Fail(a)
      ELSE IF b.err # ErrNil THEN Fail(b)
      ELSE IF p.err # ErrNil THEN p
      ELSE push(p.m, a.v)

feedGswp(m) ==
  LET a == pop(m)
      b == pop(a.m)
      p == push(b.m, a.v)
  IN  IF a.err # ErrNil THEN Fail(a)
      ELSE IF b.err # ErrNil THEN Fail(b)
      ELSE IF p.err # ErrNil THEN p
      ELSE push(p.m, b.v)

Dispatch(m, op) ==
  CASE op = "Inew" -> feedInew(m) [] op = "Iinc" -> feedIinc(m)
    [] op = "Ishl" -> feedIshl(m) [] op = "Iadd" -> feedIadd(m)
    [] op = "Ineg" -> feedIneg(m) [] op = "Isht" -> feedIsht(m)
    [] op = "Itof" -> feedItof(m) [] op = "Itou" -> feedItou(m)
    [] op = "Finf" -> feedFinf(m) [] op = "Fnan" -> feedFnan(m)
    [] op = "Fneg" -> feedFneg(m) [] op = "Snew" -> feedSnew(m)
    [] op = "Sadd" -> feedSadd(m) [] op = "Onew" -> feedOnew(m)
    [] op = "Oadd" -> feedOadd(m) [] op = "Anew" -> feedAnew(m)
    [] op = "Aadd" -> feedAadd(m) [] op = "Bnew" -> feedBnew(m)
    [] op = "Bneg" -> feedBneg(m) [] op = "Nnew" -> feedNnew(m)
    [] op = "Gdup" -> feedGdup(m) [] op = "Gpop" -> feedGpop(m)
    [] op = "Gswp" -> feedGswp(m)

\* Feed: one opcode; what the call leaves unreachable is garbage.
Feed(m, op) ==
  LET r == Dispatch(m, op) IN [m |-> Collect(r.m), err |-> r.err]

\* FeedMulti: the opcodes in order, up to the first error.
RECURSIVE FeedMulti(_, _)
RECURSIVE FeedRest(_, _)
FeedMulti(m, ops) ==
  IF ops = <<>> THEN [m |-> m, err |-> ErrNil]
  ELSE FeedRest(Feed(m, Head(ops)), Tail(ops))

\* The loop going on after an error, returning the last opcode's error.
FeedRestKeepGoing(r, ops) == IF ops = <<>> THEN r ELSE FeedMulti(r.m, ops)

\* The body of FeedMulti's loop after one Feed returned r.
FeedRest(r, ops) == IF r.err # ErrNil THEN r ELSE FeedMulti(r.m, ops)

\* Top popping the value it returns.
TopPops(m) == pop(m)

\* Top: the value in the top slot, the VM untouched.
Top(m) ==
  IF m.sp < 0 THEN [m |-> m, v |-> Null, err |-> ErrStackEmpty]
  ELSE [m |-> m, v |-> m.stack[m.sp], err |-> ErrNil]

\* ---------------------------------------------------------------- lexer
\* Mode.
ModeA == "A"
ModeS == "S"

\* char: the byte of a one-character string.
char ==
  ("B" :> 66) @@ ("u" :> 117) @@ ("b" :> 98) @@ ("a" :> 97) @@ ("A" :> 65)
  @@ ("e" :> 101) @@ ("i" :> 105) @@ ("q" :> 113) @@ ("t" :> 116) @@ ("p" :> 112)
  @@ ("?" :> 63) @@ ("!" :> 33) @@ ("~" :> 126) @@ ("M" :> 77) @@ ("@" :> 64)
  @@ ("s" :> 115) @@ ("z" :> 122) @@ ("o" :> 111) @@ ("." :> 46) @@ ("*" :> 42)
  @@ ("#" :> 35) @@ ("%" :> 37) @@ ("S" :> 83) @@ ("h" :> 104) @@ ("k" :> 107)
  @@ ("r" :> 114) @@ ("$" :> 36) @@ ("-" :> 45) @@ ("+" :> 43) @@ ("g" :> 103)
  @@ ("v" :> 118) @@ ("^" :> 94) @@ ("y" :> 121) @@ ("/" :> 47) @@ ("c" :> 99)
  @@ (":" :> 58) @@ (" " :> 32)

opTableA ==
  (char["B"] :> "Inew") @@ (char["u"] :> "Iinc") @@ (char["b"] :> "Ishl")
  @@ (char["a"] :> "Iadd") @@ (char["A"] :> "Ineg") @@ (char["e"] :> "Isht")
  @@ (char["i"] :> "Itof") @@ (char["q"] :> "Finf") @@ (char["t"] :> "Fnan")
  @@ (char["p"] :> "Fneg") @@ (char["?"] :> "Snew") @@ (char["!"] :> "Sadd")
  @@ (char["~"] :> "Onew") @@ (char["M"] :> "Oadd") @@ (char["@"] :> "Anew")
  @@ (char["s"] :> "Aadd") @@ (char["z"] :> "Bnew") @@ (char["o"] :> "Bneg")
  @@ (char["."] :> "Nnew") @@ (char["*"] :> "Gdup") @@ (char["#"] :> "Gpop")
  @@ (char["%"] :> "Gswp")

opTableS ==
  (char["S"] :> "Inew") @@ (char["h"] :> "Iinc") @@ (char["a"] :> "Ishl")
  @@ (char["k"] :> "Iadd") @@ (char["r"] :> "Ineg") @@ (char["A"] :> "Isht")
  @@ (char["z"] :> "Itof") @@ (char["p"] :> "Finf") @@ (char["b"] :> "Fnan")
  @@ (char["u"] :> "Fneg") @@ (char["$"] :> "Snew") @@ (char["-"] :> "Sadd")
  @@ (char["+"] :> "Onew") @@ (char["g"] :> "Oadd") @@ (char["v"] :> "Anew")
  @@ (char["?"] :> "Aadd") @@ (char["^"] :> "Bnew") @@ (char["!"] :> "Bneg")
  @@ (char["y"] :> "Nnew") @@ (char["/"] :> "Gdup") @@ (char["c"] :> "Gpop")
  @@ (char[":"] :> "Gswp")

\* init: the reverse of a table, reversed[v] = k for each entry k: v (were two
\* bytes to name one opcode, the one the walk of the map meets last).
reversed(table) ==
  [op \in {table[b] : b \in DOMAIN table} |-> CHOOSE b \in DOMAIN table : table[b] = op]

reversedTableA == reversed(opTableA)
reversedTableS == reversed(opTableS)

\* The zero vm.Op, returned with ok = false and with an error.
ZeroOp == "zero"
EOF == "EOF"

\* readOp: table A whatever the mode.
readOp(m, b) ==
  IF b \in DOMAIN opTableA THEN [op |-> opTableA[b], ok |-> TRUE]
  ELSE [op |-> ZeroOp, ok |-> FALSE]

\* showOp: reverse table A whatever the mode; an opcode it lacks panics.
showOp(m, op) ==
  IF op \in DOMAIN reversedTableA THEN [b |-> reversedTableA[op], err |-> ErrNil]
  ELSE [b |-> 0, err |-> Panic]

\* Next giving up at the first byte that is not in the table.
RECURSIVE LexerNextStopsAtFiller(_)
LexerNextStopsAtFiller(l) ==
  IF l.r = <<>> THEN [l |-> l, op |-> ZeroOp, err |-> EOF]
  ELSE IF readOp(ModeA, Head(l.r)).ok
       THEN [l |-> [r |-> Tail(l.r), buf |-> Head(l.r)],
             op |-> readOp(ModeA, Head(l.r)).op, err |-> ErrNil]
       ELSE [l |-> [r |-> <<>>, buf |-> Head(l.r)], op |-> ZeroOp, err |-> EOF]

NewLexer(bytes) == [r |-> bytes, buf |-> 0]

\* Lexer.Next: reads byte after byte until one is in the table or the reader
\* returns io.EOF.
RECURSIVE LexerNext(_)
LexerNext(l) ==
  IF l.r = <<>> THEN [l |-> l, op |-> ZeroOp, err |-> EOF]
  ELSE IF readOp(ModeA, Head(l.r)).ok
       THEN [l |-> [r |-> Tail(l.r), buf |-> Head(l.r)],
             op |-> readOp(ModeA, Head(l.r)).op, err |-> ErrNil]
       ELSE LexerNext([r |-> Tail(l.r), buf |-> Head(l.r)])

\* --------------------------------------------------------------- bridge
\* A host value: the Kind of its dynamic type ("nil" for the nil interface,
\* which has none), whether the type is a named one, the receiver of the
\* MarshalWatson in the type's method set ("none" when it is no Marshaler,
\* "value" or "pointer"), whether the pointer, slice or map is nil, and what
\* it holds: the referent of a pointer, the elements of an array, slice or
\* map, the fields of a struct, each exported or not.
Host(kind, named, marshaler, isnil, elems) ==
  [kind |-> kind, named |-> named, marshaler |-> marshaler, isnil |-> isnil, elems |-> elems]

NilInterface == Host("nil", FALSE, "none", TRUE, <<>>)

\* What the bridge returns: a Value by its kind and elements, or the result
\* of the host's MarshalWatson.
Converted(kind, elems) == [kind |-> kind, elems |-> elems]
Marshaled == Converted("Marshaled", <<>>)

\* A reflect.Value: the host value, and whether it was reached through an
\* unexported field (CanInterface is false then).
Reflected(h, ro) == [h |-> h, ro |-> ro]
CanInterface(v) == ~v.ro

\* MarshalWatson called on the host value: a method with a value receiver
\* called through a nil pointer panics.
MarshalWatson(h) ==
  IF h.kind = "ptr" /\ h.isnil /\ h.marshaler = "value"
  THEN [v |-> Converted("Nil", <<>>), err |-> Panic]
  ELSE [v |-> Marshaled, err |-> ErrNil]

isMarshaler(v) == v.h.marshaler # "none"
isIntFamily(v) == v.h.kind = "int"
isUintFamily(v) == v.h.kind = "uint"
isFloatFamily(v) == v.h.kind = "float"
isBool(v) == v.h.kind = "bool"
isString(v) == v.h.kind = "string"
isArray(v) == v.h.kind = "array"
isStruct(v) == v.h.kind = "struct"
isNil(v) == v.h.kind \in {"nil", "ptr", "map", "slice"} /\ v.h.isnil
isPtr(v) == v.h.kind = "ptr"
isMapConvertibleToValue(v) == v.h.kind = "map"
isSlice(v) == v.h.kind = "slice"

RECURSIVE ToValue(_)
RECURSIVE ToValueByReflection(_)
RECURSIVE ConvertElems(_, _, _)

\* ToValue: nil, then the type switch over the predeclared types, then the
\* Marshaler assertion, then reflection.
ToValue(h) ==
  IF h.kind = "nil" THEN [v |-> Converted("Nil", <<>>), err |-> ErrNil]
  ELSE IF ~h.named /\ h.kind = "bool" THEN [v |-> Converted("Bool", <<>>), err |-> ErrNil]
  ELSE IF ~h.named /\ h.kind = "int" THEN [v |-> Converted("Int", <<>>), err |-> ErrNil]
  ELSE IF ~h.named /\ h.kind = "uint" THEN [v |-> Converted("Uint", <<>>), err |-> ErrNil]
  ELSE IF ~h.named /\ h.kind = "string" THEN [v |-> Converted("String", <<>>), err |-> ErrNil]
  ELSE IF ~h.named /\ h.kind = "float" THEN [v |-> Converted("Float", <<>>), err |-> ErrNil]
  ELSE IF h.marshaler # "none" THEN MarshalWatson(h)
  ELSE ToValueByReflection(Reflected(h, FALSE))

\* The loop over elements, entries or fields: each through ToValue when it
\* can be taken as an interface, else through ToValueByReflection.
ConvertElems(v, i, out) ==
  IF i > Len(v.h.elems) THEN [v |-> out, err |-> ErrNil]
  ELSE LET e == v.h.elems[i]
           ro == v.ro \/ ~e.exported
           c == IF ro THEN ToValueByReflection(Reflected(e.v, TRUE)) ELSE ToValue(e.v)
       IN  IF c.err # ErrNil THEN [v |-> out, err |-> c.err]
           ELSE ConvertElems(v, i + 1, Append(out, c.v))

marshalerToValueByReflection(v) == MarshalWatson(v.h)

sliceOrArrayToValueByReflection(v) ==
  LET c == ConvertElems(v, 1, <<>>)
  IN  [v |-> Converted("Array", c.v), err |-> c.err]

reflectMapToValue(v) ==
  LET c == ConvertElems(v, 1, <<>>)
  IN  [v |-> Converted("Object", c.v), err |-> c.err]

structToValueByReflection(v) ==
  LET c == ConvertElems(v, 1, <<>>)
  IN  [v |-> Converted("Object", c.v), err |-> c.err]

reflectPtrToValue(v) ==
  IF CanInterface(v) THEN ToValue(v.h.elems[1].v)
  ELSE ToValueByReflection(Reflected(v.h.elems[1].v, TRUE))

ToValueByReflection(v) ==
  IF isMarshaler(v) THEN marshalerToValueByReflection(v)
  ELSE IF isIntFamily(v) THEN [v |-> Converted("Int", <<>>), err |-> ErrNil]
  ELSE IF isUintFamily(v) THEN [v |-> Converted("Uint", <<>>), err |-> ErrNil]
  ELSE IF isFloatFamily(v) THEN [v |-> Converted("Float", <<>>), err |-> ErrNil]
  ELSE IF isBool(v) THEN [v |-> Converted("Bool", <<>>), err |-> ErrNil]
  ELSE IF isString(v) THEN [v |-> Converted("String", <<>>), err |-> ErrNil]
  ELSE IF isArray(v) THEN sliceOrArrayToValueByReflection(v)
  ELSE IF isStruct(v) THEN structToValueByReflection(v)
  ELSE IF isNil(v) THEN [v |-> Converted("Nil", <<>>), err |-> ErrNil]
  ELSE IF isPtr(v) THEN reflectPtrToValue(v)
  ELSE IF isMapConvertibleToValue(v) THEN reflectMapToValue(v)
  ELSE IF isSlice(v) THEN sliceOrArrayToValueByReflection(v)
  ELSE [v |-> Converted("Nil", <<>>), err |-> Panic]

\* ------------------------------------------------------ the explored part
\* Int operands at the ends of the int64 range and around the shift width.
EdgeInts == {MinInt64, MaxInt64, I64(63), I64(64), I64(-63), I64(-64)}

WeightInt(bits) ==
  IF bits \in EdgeInts THEN 2
  ELSE IF IsSmall64(bits) /\ ToInt(bits) <= MaxWeight /\ -ToInt(bits) <= MaxWeight
       THEN 1 + (IF ToInt(bits) < 0 THEN -ToInt(bits) ELSE ToInt(bits))
       ELSE MaxWeight + 1

WeightFloat(bits) ==
  IF bits \in {InfBits, NaNBits} THEN 2
  ELSE IF FlipSign(bits) \in {InfBits, NaNBits} THEN 3
  ELSE IF WeightInt(bits) <= MaxWeight THEN 1 + WeightInt(bits)
  ELSE 2 + WeightInt(FlipSign(bits))

\* A byte costs what the least Int that Sadd turns into it costs.
WeightByte(b) == 1 + (IF b < 128 THEN b ELSE 256 - b)

\* The size of a value: about the number of opcodes that build it.
RECURSIVE Weight(_, _)
Weight(h, v) ==
  LET Sum(f, n) ==
        LET S[i \in 0..n] == IF i = 0 THEN 0 ELSE S[i - 1] + f[i] IN S[n]
      Bytes(s) == Sum([i \in 1..Len(s) |-> WeightByte(s[i])], Len(s))
  IN  CASE v.kind = "null" -> 0
        [] v.kind = "Int" -> WeightInt(v.bits)
        [] v.kind = "Uint" -> 1 + WeightInt(v.bits)
        [] v.kind = "Float" -> WeightFloat(v.bits)
        [] v.kind = "Bool" -> IF v.bool THEN 3 ELSE 2
        [] v.kind = "Nil" -> 2
        [] v.kind = "String" -> 1 + Bytes(Elems(h, v))
        [] v.kind = "Array" ->
             1 + Sum([i \in 1..v.len |-> Weight(h, h[v.ref].data[i])], v.len)
        [] v.kind = "Object" ->
             LET keys == SetToSeq(DOMAIN h[v.ref].m)
             IN  1 + Sum([i \in 1..Len(keys) |->
                            1 + Bytes(keys[i]) + Weight(h, h[v.ref].m[keys[i]])],
                         Len(keys))

Bounded(m) ==
  LET S[i \in -1..(Capacity - 1)] ==
        IF i = -1 THEN 0 ELSE S[i - 1] + Weight(m.heap, m.stack[i])
  IN  S[Capacity - 1] <= MaxWeight

\* The opcode lists FeedMulti is called with: the scenarios of the
\* specification, lists with a failing opcode in the middle, and lists that
\* copy a container and then change one of the two.
BuildA ==
  <<"Inew", "Iinc", "Ishl", "Iinc", "Ishl", "Ishl", "Ishl", "Ishl", "Ishl", "Iinc">>

BuildTwo == <<"Inew", "Iinc", "Ishl">>
ShiftScenario == <<"Inew", "Iinc", "Ineg", "Inew", "Iinc", "Ishl", "Isht">>
ObjectScenario == <<"Onew", "Snew">> \o BuildA \o <<"Sadd", "Inew", "Iinc", "Oadd">>
SwapScenario == <<"Inew", "Inew", "Iinc", "Gswp">>
OverwriteKey == <<"Onew", "Snew", "Inew", "Oadd", "Snew", "Inew", "Iinc", "Oadd">>
DupString == <<"Snew", "Inew", "Sadd", "Gdup", "Gswp", "Inew", "Iinc", "Sadd">>
DupArray == <<"Anew", "Anew", "Aadd", "Gdup", "Inew", "Aadd">>

Programs ==
  { <<>>, BuildTwo, ShiftScenario, ObjectScenario, SwapScenario, OverwriteKey,
    DupString, DupArray,
    <<"Iinc", "Inew">>,
    <<"Inew", "Fneg", "Inew">>,
    <<"Bnew", "Gdup", "Gdup", "Gdup", "Gpop", "Gpop">> }

\* ---------------------------------------------------------- the behaviour
VARIABLES
  stack,   \* vm.stack
  sp,      \* vm.sp
  heap,    \* the backing arrays and maps the values refer to
  call,    \* the last call made and its arguments
  err,     \* the error the last call returned
  ret,     \* the value the last call returned, else Null
  reader,  \* Lexer.r: the bytes the reader has not yet handed out
  buf,     \* Lexer.buf[0]
  emitted  \* the opcodes Lexer.Next has returned so far

vars == <<stack, sp, heap, call, err, ret, reader, buf, emitted>>

vmvars == <<stack, sp, heap>>
lexervars == <<reader, buf, emitted>>

\* No Lexer has been made.
NoLexer == reader = <<>> /\ buf = 0 /\ emitted = <<>>

VM == [stack |-> stack, sp |-> sp, heap |-> heap]

Install(m) ==
  /\ stack' = m.stack
  /\ sp' = m.sp
  /\ heap' = m.heap

\* NewVM: an empty stack of Capacity slots.
Init ==
  /\ stack = NewVM.stack
  /\ sp = NewVM.sp
  /\ heap = NewVM.heap
  /\ call = [name |-> "NewVM", ops |-> <<>>]
  /\ err = ErrNil
  /\ ret = Null
  /\ NoLexer

\* What a call that returned r leaves: the VM, and the error it returned.
Returns(r) ==
  /\ Install(r.m)
  /\ err' = r.err

\* The calls explored: the first on a new VM, and those that leave the
\* stack within MaxWeight.
Explored(first, m) == first \/ Bounded(m)

FeedCall(op) ==
  /\ err # Panic
  /\ Returns(Feed(VM, op))
  /\ Explored(call.name = "NewVM", VM')
  /\ call' = [name |-> "Feed", ops |-> <<op>>]
  /\ ret' = Null
  /\ UNCHANGED lexervars

FeedMultiCall(ops) ==
  /\ err # Panic
  /\ Returns(FeedMulti(VM, ops))
  /\ Explored(sp = -1, VM')
  /\ call' = [name |-> "FeedMulti", ops |-> ops]
  /\ ret' = Null
  /\ UNCHANGED lexervars

TopReturns(r) ==
  /\ Install(r.m)
  /\ ret' = r.v
  /\ err' = r.err

TopCall ==
  /\ err # Panic
  /\ TopReturns(Top(VM))
  /\ call' = [name |-> "Top", ops |-> <<>>]
  /\ UNCHANGED lexervars

Next ==
  \/ \E op \in Ops : FeedCall(op)
  \/ \E ops \in Programs : FeedMultiCall(ops)
  \/ TopCall

Spec == Init /\ [][Next]_vars

\* A VM whose stack already holds one or two operands: Ints at the ends of
\* the int64 range and around the shift width, small Ints, and a Bool.
ArithOperands ==
  {NewIntValue(n) : n \in EdgeInts \cup {I64(k) : k \in -2..2}} \cup {NewBoolValue(FALSE)}

InitArith ==
  /\ \E a \in ArithOperands, b \in ArithOperands \cup {Null} :
       /\ stack = [i \in 0..(Capacity - 1) |-> IF i = 0 THEN a ELSE IF i = 1 THEN b ELSE Null]
       /\ sp = IF b = Null THEN 0 ELSE 1
  /\ heap = EmptyHeap
  /\ call = [name |-> "NewVM", ops |-> <<>>]
  /\ err = ErrNil
  /\ ret = Null
  /\ NoLexer

SpecArith == InitArith /\ [][Next]_vars

\* A VM whose stack holds a String (empty, one byte, or filling its backing
\* array) and on top of it an Int outside 0..255 or at the ends of the range.
BuildString(k) ==
  <<"Snew">> \o [i \in 1..(2 * k) |-> IF i % 2 = 1 THEN "Inew" ELSE "Sadd"]

ByteStrings == {BuildString(0), <<"Snew">> \o BuildA \o <<"Sadd">>, BuildString(8)}

SaddInts ==
  EdgeInts \cup {I64(k) : k \in {-257, -256, -1, 0, 256, 257, 511}}

InitBytes ==
  /\ \E p \in ByteStrings, n \in SaddInts :
       /\ stack = pushInt(FeedMulti(NewVM, p).m, n).m.stack
       /\ sp = pushInt(FeedMulti(NewVM, p).m, n).m.sp
       /\ heap = pushInt(FeedMulti(NewVM, p).m, n).m.heap
  /\ call = [name |-> "NewVM", ops |-> <<>>]
  /\ err = ErrNil
  /\ ret = Null
  /\ NoLexer

SpecBytes == InitBytes /\ [][Next]_vars

\* A VM whose stack holds an Object (empty, {"a": 1} or {"": 0, "a": 1}), a
\* String key ("" or "a") and a value of any shape, above one more value
\* where the stack has room for it.
KeyA == <<"Snew">> \o BuildA \o <<"Sadd">>

OaddObjects ==
  { <<"Onew">>,
    <<"Onew">> \o KeyA \o <<"Inew", "Iinc", "Oadd">>,
    <<"Onew", "Snew", "Inew", "Oadd">> \o KeyA \o <<"Inew", "Iinc", "Oadd">> }

OaddKeys == {<<"Snew">>, KeyA}

OaddValues ==
  { <<"Inew", "Iinc", "Ishl">>, <<"Nnew">>, <<"Snew", "Inew", "Sadd">>,
    <<"Anew", "Inew", "Aadd">>, <<"Anew", "Anew", "Aadd">>,
    <<"Onew", "Snew", "Inew", "Oadd">> }

OaddBelow == IF Capacity > 3 THEN {<<>>, <<"Nnew">>} ELSE {<<>>}

InitObject ==
  /\ \E u \in OaddBelow, o \in OaddObjects, k \in OaddKeys, v \in OaddValues :
       /\ stack = FeedMulti(NewVM, u \o o \o k \o v).m.stack
       /\ sp = FeedMulti(NewVM, u \o o \o k \o v).m.sp
       /\ heap = FeedMulti(NewVM, u \o o \o k \o v).m.heap
  /\ call = [name |-> "NewVM", ops |-> <<>>]
  /\ err = ErrNil
  /\ ret = Null
  /\ NoLexer

SpecObject == InitObject /\ [][Next]_vars

\* ---- the lexer's behaviour
MaxInput == 3

\* Bytes of both tables, of one table only, and of neither.
LexerBytes ==
  {char["~"], char["+"], char["M"], char["g"], char["a"], char["S"], char[" "]}

RECURSIVE Inputs(_)
Inputs(n) ==
  IF n = 0 THEN {<<>>}
  ELSE Inputs(n - 1) \cup {Append(i, b) : i \in {j \in Inputs(n - 1) : Len(j) = n - 1}, b \in LexerBytes}

\* The input of the specification's example: ~?Bu!Ba!M.
SampleInput ==
  <<char["~"], char["?"], char["B"], char["u"], char["!"], char["B"], char["a"],
    char["!"], char["M"]>>

InitLexer ==
  /\ stack = NewVM.stack
  /\ sp = NewVM.sp
  /\ heap = NewVM.heap
  /\ \E bytes \in Inputs(MaxInput) \cup {SampleInput} :
       /\ reader = NewLexer(bytes).r
       /\ buf = NewLexer(bytes).buf
  /\ emitted = <<>>
  /\ call = [name |-> "NewLexer", ops |-> <<>>]
  /\ err = ErrNil
  /\ ret = ZeroOp

NextReturns(x) ==
  /\ reader' = x.l.r
  /\ buf' = x.l.buf
  /\ ret' = x.op
  /\ err' = x.err
  /\ emitted' = IF x.err = ErrNil THEN Append(emitted, x.op) ELSE emitted

NextCall ==
  /\ NextReturns(LexerNext([r |-> reader, buf |-> buf]))
  /\ call' = [name |-> "Next", ops |-> <<>>]
  /\ UNCHANGED vmvars

SpecLexer == InitLexer /\ [][NextCall]_vars

\* The caller goes on calling Next.
SpecLexerFair == SpecLexer /\ WF_vars(NextCall)

\* ---- readOp and showOp, called on every mode, byte and opcode
AllBytes == 0..255

InitTables ==
  /\ stack = NewVM.stack
  /\ sp = NewVM.sp
  /\ heap = NewVM.heap
  /\ NoLexer
  /\ call = [name |-> "init", m |-> ModeA, b |-> 0, op |-> ZeroOp]
  /\ err = ErrNil
  /\ ret = [op |-> ZeroOp, ok |-> FALSE, b |-> 0]

\* readOp(m, b): ret holds the opcode and ok it returned.
ReadOpCall(m, b) ==
  /\ err # Panic
  /\ call' = [name |-> "readOp", m |-> m, b |-> b, op |-> ZeroOp]
  /\ ret' = [op |-> readOp(m, b).op, ok |-> readOp(m, b).ok, b |-> 0]
  /\ err' = ErrNil
  /\ UNCHANGED <<vmvars, lexervars>>

\* showOp(m, op): ret holds the byte it returned.
ShowOpCall(m, op) ==
  /\ err # Panic
  /\ call' = [name |-> "showOp", m |-> m, b |-> 0, op |-> op]
  /\ ret' = [op |-> ZeroOp, ok |-> FALSE, b |-> showOp(m, op).b]
  /\ err' = showOp(m, op).err
  /\ UNCHANGED <<vmvars, lexervars>>

NextTables ==
  \/ \E m \in {ModeA, ModeS}, b \in AllBytes : ReadOpCall(m, b)
  \/ \E m \in {ModeA, ModeS}, op \in Ops : ShowOpCall(m, op)

SpecTables == InitTables /\ [][NextTables]_vars

\* ---- the bridge, called on host values of every shape
MaxDepth == 1

Primitives == {"bool", "int", "uint", "float", "string"}

\* Host values that hold nothing: the nil interface, values of the
\* predeclared types, values of named types with and without MarshalWatson,
\* structs without fields, a func (which has no conversion).
Leaves ==
  {NilInterface, Host("func", FALSE, "none", FALSE, <<>>)}
  \cup {Host(k, FALSE, "none", FALSE, <<>>) : k \in Primitives}
  \cup {Host(k, TRUE, m, FALSE, <<>>) : k \in Primitives \cup {"struct"}, m \in {"none", "value"}}

\* The values built around a host value h: pointers to it (the pointer type
\* has the methods of h's type, or a MarshalWatson of its own), a slice, an
\* array and a map holding it, structs with it as an exported and as an
\* unexported field; named slices and maps may declare MarshalWatson.
Around(h) ==
  (IF h.kind = "nil" THEN {}
   ELSE {Host("ptr", FALSE, m, n, IF n THEN <<>> ELSE <<[exported |-> TRUE, v |-> h]>>) :
           m \in (IF h.marshaler = "value" THEN {"value"} ELSE {"none", "pointer"}),
           n \in BOOLEAN})
  \cup {Host(k, FALSE, "none", FALSE, <<[exported |-> TRUE, v |-> h]>>) :
          k \in {"slice", "array", "map"}}
  \cup {Host("struct", TRUE, "none", FALSE, <<[exported |-> x, v |-> h]>>) : x \in BOOLEAN}
  \cup {Host(k, TRUE, m, TRUE, <<>>) : k \in {"slice", "map"}, m \in {"none", "value"}}

RECURSIVE Hosts(_)
Hosts(d) ==
  IF d = 0 THEN Leaves
  ELSE Hosts(d - 1) \cup UNION {Around(h) : h \in Hosts(d - 1)}

NoResult == [v |-> Converted("none", <<>>), err |-> ErrNil]

InitBridge ==
  /\ stack = NewVM.stack
  /\ sp = NewVM.sp
  /\ heap = NewVM.heap
  /\ NoLexer
  /\ \E h \in Hosts(MaxDepth) : call = [name |-> "host", v |-> h, ro |-> FALSE]
  /\ err = ErrNil
  /\ ret = NoResult.v

BridgeReturns(x) ==
  /\ ret' = x.v
  /\ err' = x.err

ToValueCall ==
  /\ call.name = "host"
  /\ BridgeReturns(ToValue(call.v))
  /\ call' = [call EXCEPT !.name = "ToValue"]
  /\ UNCHANGED <<vmvars, lexervars>>

ToValueByReflectionCall(ro) ==
  /\ call.name = "host"
  /\ BridgeReturns(ToValueByReflection(Reflected(call.v, ro)))
  /\ call' = [call EXCEPT !.name = "ToValueByReflection", !.ro = ro]
  /\ UNCHANGED <<vmvars, lexervars>>

NextBridge ==
  \/ ToValueCall
  \/ \E ro \in BOOLEAN : ToValueByReflectionCall(ro)

SpecBridge == InitBridge /\ [][NextBridge]_vars

\* ================================================================ claims
\* Helpers of the claims: the step is a Feed of opcode o; what slot i holds.
Fed(o) == call'.name = "Feed" /\ call'.ops = <<o>>
Slot(i) == Content(heap, stack[i])
NewSlot(i) == Content(heap', stack'[i])
IntOf(n) == Content(EmptyHeap, NewIntValue(I64(n)))

\* The opcodes that push without popping first.
PushOnly == {"Inew", "Finf", "Fnan", "Snew", "Onew", "Anew", "Bnew", "Nnew"}

\* C1: after any Feed, failed ones included, -1 <= sp <= Capacity-1; a push at
\* sp = Capacity-1 returns the overflow error and a pop at sp < 0 returns
\* StackEmpty, and neither moves sp.
C1_StackPointerInRange ==
  [][ /\ -1 <= sp' /\ sp' <= Capacity - 1
      /\ \A o \in Ops :
           Fed(o) =>
             /\ (o \in PushOnly \cup {"Gdup"} /\ sp = Capacity - 1)
                  => (err' = ErrMaximumStackSizeExceeded /\ sp' = sp)
             /\ (o \notin PushOnly /\ sp < 0) => (err' = ErrStackEmpty /\ sp' = sp)
    ]_vars

C1_Witness ==
  /\ call.name = "Feed"
  /\ err = ErrMaximumStackSizeExceeded
  /\ sp = Capacity - 1

\* What Feed returns when it is called on ops[1], ops[2], ... in turn,
\* whatever each call returned: the sequence of the results.
RECURSIVE FedOneByOne(_, _)
FedOneByOne(m, ops) ==
  IF ops = <<>> THEN <<>>
  ELSE CHOOSE s \in {<<r>> \o FedOneByOne(r.m, Tail(ops)) : r \in {Feed(m, Head(ops))}} : TRUE

\* C2: FeedMulti(ops) feeds the opcodes in order and stops at the first that
\* fails: it returns that error, the VM is as after feeding ops[1..i] one by
\* one (i the first failing index) and nothing after i runs; it returns no
\* error only if every opcode succeeded.
C2_FeedMultiStopsAtFirstError ==
  [][ call'.name = "FeedMulti" =>
        \A run \in {<<[m |-> VM, err |-> ErrNil]>> \o FedOneByOne(VM, call'.ops)} :
          LET fails == {i \in 2..Len(run) : run[i].err # ErrNil}
              last == IF fails = {} THEN Len(run)
                      ELSE CHOOSE i \in fails : \A j \in fails : i <= j
          IN  /\ err' = run[last].err
              /\ (err' = ErrNil) <=> (fails = {})
              /\ sp' = run[last].m.sp
              /\ stack' = run[last].m.stack
              /\ \A i \in 0..(Capacity - 1) :
                   NewSlot(i) = Content(run[last].m.heap, run[last].m.stack[i])
    ]_vars

C2_Witness ==
  /\ call = [name |-> "FeedMulti", ops |-> <<"Inew", "Fneg", "Inew">>]
  /\ err = ErrTypeMismatch
  /\ sp = -1

\* The Kinds an opcode's pops ask for, in the order it pops.
Expect(o) ==
  CASE o \in {"Iinc", "Ishl", "Ineg", "Itof", "Itou"} -> <<"Int">>
    [] o \in {"Iadd", "Isht"} -> <<"Int", "Int">>
    [] o = "Fneg" -> <<"Float">>
    [] o = "Bneg" -> <<"Bool">>
    [] o = "Sadd" -> <<"Int", "String">>
    [] o = "Aadd" -> <<"any", "Array">>
    [] o = "Oadd" -> <<"any", "String", "Object">>
    [] OTHER -> <<>>

\* C3 as stated: a Feed that fails with TypeMismatch leaves Top() reporting
\* what it reported before the call.
C3_TopUnchangedOnTypeMismatch ==
  [][ (call'.name = "Feed" /\ err' = ErrTypeMismatch) =>
        /\ Top(VM)'.err = Top(VM).err
        /\ Content(heap, Top(VM).v)' = Content(heap, Top(VM).v)
    ]_vars

\* C3 as amended: a Feed that fails with TypeMismatch has popped the value
\* of the wrong Kind and the operands popped before it: sp is lower by that
\* number of pops, the slots at and below the new sp are as they were, and
\* Top() then reports the slot at the new sp (StackEmpty when there is none).
C3_TypeMismatchPopsOperands ==
  [][ \A o \in Ops :
        (Fed(o) /\ err' = ErrTypeMismatch) =>
          \E k \in 1..Len(Expect(o)) :
            /\ k <= sp + 1
            /\ Expect(o)[k] # "any" /\ stack[sp - k + 1].kind # Expect(o)[k]
            /\ \A j \in 1..(k - 1) : Expect(o)[j] \in {"any", stack[sp - j + 1].kind}
            /\ sp' = sp - k
            /\ \A i \in 0..(Capacity - 1) :
                 Slot(i)' = IF i <= sp - k THEN Slot(i) ELSE Content(EmptyHeap, Null)
            /\ Top(VM)'.err = IF sp - k < 0 THEN ErrStackEmpty ELSE ErrNil
            /\ sp - k >= 0 => Content(heap, Top(VM).v)' = Slot(sp - k)
    ]_vars

C3_Witness ==
  /\ call = [name |-> "Feed", ops |-> <<"Iadd">>]
  /\ err = ErrTypeMismatch
  /\ sp = 0

\* Every place a piece of storage is referred from: a stack slot, an element
\* of an Array, a value of an Object.
RECURSIVE Sites(_, _)
RECURSIVE SitesSeq(_, _)
Sites(h, v) ==
  IF v.kind \notin {"String", "Array", "Object"} \/ v.ref = 0 THEN <<>>
  ELSE CASE v.kind = "String" -> <<v.ref>>
         [] v.kind = "Array" -> <<v.ref>> \o SitesSeq(h, Elems(h, v))
         [] v.kind = "Object" ->
              LET keys == SetToSeq(DOMAIN h[v.ref].m)
              IN  <<v.ref>> \o SitesSeq(h, [i \in 1..Len(keys) |-> h[v.ref].m[keys[i]]])

SitesSeq(h, vs) == IF vs = <<>> THEN <<>> ELSE Sites(h, Head(vs)) \o SitesSeq(h, Tail(vs))

NoAliasing ==
  LET s == SitesSeq(heap, [i \in 1..Capacity |-> stack[i - 1]])
  IN  \A i, j \in 1..Len(s) : i # j => s[i] # s[j]

\* A proper prefix test on sequences.
IsPrefix(a, b) == Len(a) <= Len(b) /\ SubSeq(b, 1, Len(a)) = a

\* C4: no byte array, element array or map is referred to from two places
\* (two stack slots, or a slot and an element of a container); and a
\* successful Sadd, Aadd or Oadd changes no slot below its result and none of
\* the bytes, elements or other entries its container already held.
C4_NoAliasing ==
  [][ /\ NoAliasing'
      /\ \A o \in {"Sadd", "Aadd", "Oadd"} :
           (Fed(o) /\ err' = ErrNil) =>
             /\ \A i \in 0..(sp' - 1) : Slot(i)' = Slot(i)
             /\ o = "Sadd" => IsPrefix(Slot(sp - 1).bytes, NewSlot(sp').bytes)
             /\ o = "Aadd" => IsPrefix(Slot(sp - 1).elems, NewSlot(sp').elems)
             /\ o = "Oadd" =>
                  \A k \in DOMAIN Slot(sp - 2).entries :
                    \/ k = Slot(sp - 1).bytes
                    \/ /\ k \in DOMAIN NewSlot(sp').entries
                       /\ NewSlot(sp').entries[k] = Slot(sp - 2).entries[k]
    ]_vars

\* Two Strings, the one below copied from the one on top before a byte was
\* appended to the original in place.
C4_Witness ==
  /\ call = [name |-> "FeedMulti", ops |-> DupString]
  /\ err = ErrNil
  /\ sp = 1
  /\ Slot(0).bytes = <<0>>
  /\ Slot(1).bytes = <<0, 1>>
  /\ stack[0].ref # stack[1].ref

\* C5: Gswp on two or more values succeeds and exchanges the top two; sp and
\* the slots below are unchanged.  [Inew, Inew, Iinc, Gswp] on an empty VM
\* leaves Int(0) on top and Int(1) below it.
C5_GswpSwapsTopTwo ==
  [][ /\ (Fed("Gswp") /\ sp >= 1) =>
           /\ err' = ErrNil
           /\ sp' = sp
           /\ Slot(sp)' = Slot(sp - 1)
           /\ Slot(sp - 1)' = Slot(sp)
           /\ \A i \in 0..(sp - 2) : Slot(i)' = Slot(i)
      /\ (call' = [name |-> "FeedMulti", ops |-> SwapScenario] /\ sp = -1) =>
           /\ err' = ErrNil
           /\ sp' = 1
           /\ Slot(1)' = IntOf(0)
           /\ Slot(0)' = IntOf(1)
    ]_vars

C5_Witness ==
  /\ call = [name |-> "FeedMulti", ops |-> SwapScenario]
  /\ err = ErrNil
  /\ sp = 1
  /\ Slot(1) = IntOf(0)
  /\ Slot(0) = IntOf(1)

\* C6: Top leaves sp and every slot as they are; it returns stack[sp] when
\* sp >= 0 and StackEmpty exactly when sp < 0.
C6_TopPeeks ==
  [][ call'.name = "Top" =>
        /\ sp' = sp
        /\ stack' = stack
        /\ \A i \in 0..(Capacity - 1) : Slot(i)' = Slot(i)
        /\ (err' = ErrStackEmpty) <=> (sp < 0)
        /\ sp >= 0 => (err' = ErrNil /\ ret' = stack[sp])
    ]_vars

C6_Witness ==
  /\ call.name = "Top"
  /\ err = ErrNil
  /\ sp >= 1
  /\ ret = stack[sp]
  /\ ret.kind = "Array"

\* ---- the integer opcodes, against binary numerals of 64 digits
\* The 64 binary digits of an int64, the least significant first.
Bits(a) == [i \in 1..64 |-> (a[((i - 1) \div 16) + 1] \div (2^((i - 1) % 16))) % 2]

ZeroBits == [i \in 1..64 |-> 0]
OneBits == [i \in 1..64 |-> IF i = 1 THEN 1 ELSE 0]

\* x + y modulo 2^64: digit by digit with the carry c, the last carry dropped.
RECURSIVE SumFrom(_, _, _, _)
SumFrom(x, y, i, c) ==
  IF i > 64 THEN <<>>
  ELSE <<(x[i] + y[i] + c) % 2>> \o SumFrom(x, y, i + 1, (x[i] + y[i] + c) \div 2)

SumBits(x, y) == SumFrom(x, y, 1, 0)

\* The numeral read as an unsigned shift count: 64 stands for 64 and more.
CountOf(x) ==
  IF \E i \in 7..64 : x[i] = 1 THEN 64
  ELSE x[1] + 2 * x[2] + 4 * x[3] + 8 * x[4] + 16 * x[5] + 32 * x[6]

\* The magnitude of a negative numeral, read as unsigned.
MagnitudeOf(x) == SumBits([i \in 1..64 |-> 1 - x[i]], OneBits)

\* x * 2^k modulo 2^64, and floor(x / 2^k) for signed x.
ShlBits(x, k) == [i \in 1..64 |-> IF i - k >= 1 THEN x[i - k] ELSE 0]
SarBits(x, k) == [i \in 1..64 |-> IF i + k <= 64 THEN x[i + k] ELSE x[64]]

IsInt(i) == i >= 0 /\ stack[i].kind = "Int"

\* C7: Iinc, Ishl, Iadd and Ineg on Int operands never fail and push
\* n+1, 2n, a+b and -n modulo 2^64: Iinc of the maximum Int gives the minimum
\* Int, Ineg of the minimum Int gives the minimum Int, and on small operands
\* the result is the integer result.
C7_IntegerOpcodesWrap ==
  [][ /\ \A o \in {"Iinc", "Ishl", "Ineg"} :
           (Fed(o) /\ IsInt(sp)) =>
             /\ err' = ErrNil
             /\ sp' = sp
             /\ stack'[sp'].kind = "Int"
             /\ LET n == stack[sp].bits
                    r == stack'[sp'].bits
                IN  /\ o = "Iinc" => Bits(r) = SumBits(Bits(n), OneBits)
                    /\ o = "Ishl" => Bits(r) = SumBits(Bits(n), Bits(n))
                    /\ o = "Ineg" => SumBits(Bits(r), Bits(n)) = ZeroBits
                    /\ (o = "Iinc" /\ n = MaxInt64) => r = MinInt64
                    /\ (o = "Ineg" /\ n = MinInt64) => r = MinInt64
                    /\ IsSmall64(n) /\ ToInt(n) < 1000 /\ ToInt(n) > -1000 =>
                         /\ IsSmall64(r)
                         /\ o = "Iinc" => ToInt(r) = ToInt(n) + 1
                         /\ o = "Ishl" => ToInt(r) = 2 * ToInt(n)
                         /\ o = "Ineg" => ToInt(r) = -ToInt(n)
      /\ (Fed("Iadd") /\ IsInt(sp) /\ IsInt(sp - 1)) =>
           /\ err' = ErrNil
           /\ sp' = sp - 1
           /\ stack'[sp'].kind = "Int"
           /\ LET b == stack[sp].bits
                  a == stack[sp - 1].bits
                  r == stack'[sp'].bits
              IN  /\ Bits(r) = SumBits(Bits(a), Bits(b))
                  /\ (IsSmall64(a) /\ IsSmall64(b) /\ ToInt(a) < 1000 /\ ToInt(a) > -1000
                        /\ ToInt(b) < 1000 /\ ToInt(b) > -1000) =>
                       (IsSmall64(r) /\ ToInt(r) = ToInt(a) + ToInt(b))
    ]_vars

\* Iinc has wrapped the maximum Int to the minimum Int.
C7_Witness ==
  /\ call = [name |-> "Feed", ops |-> <<"Iinc">>]
  /\ err = ErrNil
  /\ sp >= 0
  /\ stack[sp] = NewIntValue(MinInt64)

\* C8: for all Int a and Int b on top of it, Isht succeeds and leaves
\* Int(a << b) when b >= 0 and Int(a >> -b), the shift arithmetic, when b < 0.
C8_IshtShiftsForAllOperands ==
  [][ (Fed("Isht") /\ IsInt(sp) /\ IsInt(sp - 1)) =>
        /\ err' = ErrNil
        /\ sp' = sp - 1
        /\ stack'[sp'].kind = "Int"
        /\ LET b == Bits(stack[sp].bits)
               a == Bits(stack[sp - 1].bits)
           IN  Bits(stack'[sp'].bits) =
                 IF b[64] = 0 THEN ShlBits(a, CountOf(b))
                 ELSE SarBits(a, CountOf(MagnitudeOf(b)))
    ]_vars

\* Isht shifts as stated for every b but the minimum Int.
C8_IshtShiftsUnlessCountIsMinimum ==
  [][ (Fed("Isht") /\ IsInt(sp) /\ IsInt(sp - 1) /\ stack[sp].bits # MinInt64) =>
        /\ err' = ErrNil
        /\ sp' = sp - 1
        /\ stack'[sp'].kind = "Int"
        /\ LET b == Bits(stack[sp].bits)
               a == Bits(stack[sp - 1].bits)
           IN  Bits(stack'[sp'].bits) =
                 IF b[64] = 0 THEN ShlBits(a, CountOf(b))
                 ELSE SarBits(a, CountOf(MagnitudeOf(b)))
    ]_vars

FedShiftScenario == call'.name = "FeedMulti" /\ call'.ops = ShiftScenario /\ sp = -1

\* C9 as stated: feeding ShiftScenario to an empty VM succeeds and leaves
\* exactly one value, Int(-1).
C9_ShiftScenarioLeavesMinusOne ==
  [][ FedShiftScenario => (err' = ErrNil /\ sp' = 0 /\ NewSlot(0) = IntOf(-1)) ]_vars

\* C9: feeding ShiftScenario to an empty VM succeeds and leaves exactly one
\* value, Int(-4): Isht finds a = -1 below b = 2 and shifts a left by two.
C9_ShiftScenarioLeavesMinusFour ==
  [][ FedShiftScenario => (err' = ErrNil /\ sp' = 0 /\ NewSlot(0) = IntOf(-4)) ]_vars

C9_Witness ==
  /\ call = [name |-> "FeedMulti", ops |-> ShiftScenario]
  /\ err = ErrNil
  /\ sp = 0
  /\ stack[0] = NewIntValue(I64(-4))

\* C10: on an Int n, Itou leaves the Uint and Itof the Float of the same 64
\* bits (for negative n the unsigned number 2^64 + n), in the same slot, with
\* sp and the slots below it unchanged; on a top that is not an Int both
\* return TypeMismatch and leave the slots below it unchanged.
C10_ConversionsKeepBitPattern ==
  [][ \A o \in {"Itou", "Itof"} :
        (Fed(o) /\ sp >= 0) =>
          /\ \A i \in 0..(sp - 1) : NewSlot(i) = Slot(i)
          /\ IF stack[sp].kind = "Int"
             THEN /\ err' = ErrNil
                  /\ sp' = sp
                  /\ stack'[sp].kind = (IF o = "Itou" THEN "Uint" ELSE "Float")
                  /\ Bits(stack'[sp].bits) = Bits(stack[sp].bits)
                  /\ (IsSmall64(stack[sp].bits) /\ ToInt(stack[sp].bits) < 0) =>
                       stack'[sp].bits = <<B + ToInt(stack[sp].bits), B - 1, B - 1, B - 1>>
             ELSE err' = ErrTypeMismatch
    ]_vars

\* Itou has turned a negative Int, above another value, into a Uint.
C10_Witness ==
  /\ call = [name |-> "Feed", ops |-> <<"Itou">>]
  /\ err = ErrNil
  /\ sp = 1
  /\ stack[1].kind = "Uint"
  /\ IsNeg64(stack[1].bits)

\* n mod 256 for an int64 n: the number its eight low binary digits spell.
LowByte(n) ==
  LET d == Bits(n)
  IN  d[1] + 2 * d[2] + 4 * d[3] + 8 * d[4] + 16 * d[5] + 32 * d[6] + 64 * d[7] + 128 * d[8]

\* C11: Sadd on Int n above String s leaves, in place of both, the String of
\* the bytes of s in order followed by the one byte n mod 256, for negative n
\* and n >= 256 too; the slots below are unchanged.
C11_SaddAppendsLowByte ==
  [][ (Fed("Sadd") /\ IsInt(sp) /\ sp >= 1 /\ stack[sp - 1].kind = "String") =>
        /\ err' = ErrNil
        /\ sp' = sp - 1
        /\ NewSlot(sp').kind = "String"
        /\ NewSlot(sp').bytes = Slot(sp - 1).bytes \o <<LowByte(stack[sp].bits)>>
        /\ (IsSmall64(stack[sp].bits)) =>
             NewSlot(sp').bytes[Len(NewSlot(sp').bytes)] = ToInt(stack[sp].bits) % 256
        /\ \A i \in 0..(sp' - 1) : NewSlot(i) = Slot(i)
    ]_vars

\* Sadd has appended Int(257) to the String "a": the byte 1 follows the byte 97.
C11_Witness ==
  /\ call = [name |-> "Feed", ops |-> <<"Sadd">>]
  /\ err = ErrNil
  /\ sp = 0
  /\ Slot(0).kind = "String"
  /\ Slot(0).bytes = <<97, 1>>

\* C12: Oadd on [..., Object o, String k, v] leaves in their place the one
\* Object that maps k to what v held and every other key of o to what it
\* held before: a key o already had is overwritten and the number of keys
\* does not grow; sp is lower by 2 and the slots below are unchanged.  The
\* opcodes that build {"a": 1} leave an Object with the one entry
\* [0x61] -> Int(1).
C12_OaddSetsKey ==
  [][ /\ (Fed("Oadd") /\ sp >= 2 /\ stack[sp - 1].kind = "String"
            /\ stack[sp - 2].kind = "Object") =>
           /\ err' = ErrNil
           /\ sp' = sp - 2
           /\ NewSlot(sp').kind = "Object"
           /\ LET o == Slot(sp - 2).entries
                  k == Slot(sp - 1).bytes
                  n == NewSlot(sp').entries
              IN  /\ DOMAIN n = DOMAIN o \cup {k}
                  /\ n[k] = Slot(sp)
                  /\ \A j \in DOMAIN o \ {k} : n[j] = o[j]
                  /\ Cardinality(DOMAIN n) =
                       Cardinality(DOMAIN o) + (IF k \in DOMAIN o THEN 0 ELSE 1)
           /\ \A i \in 0..(sp' - 1) : NewSlot(i) = Slot(i)
      /\ (call'.name = "FeedMulti" /\ call'.ops = ObjectScenario /\ sp = -1) =>
           /\ err' = ErrNil
           /\ sp' = 0
           /\ NewSlot(0).kind = "Object"
           /\ DOMAIN NewSlot(0).entries = {<<97>>}
           /\ NewSlot(0).entries[<<97>>] = IntOf(1)
    ]_vars

\* Oadd has overwritten the entry of "a" in {"": 0, "a": 1} with Int(2).
C12_Witness ==
  /\ call = [name |-> "Feed", ops |-> <<"Oadd">>]
  /\ err = ErrNil
  /\ sp >= 0
  /\ Slot(sp).kind = "Object"
  /\ DOMAIN Slot(sp).entries = {<<>>, <<97>>}
  /\ Slot(sp).entries[<<>>] = IntOf(0)
  /\ Slot(sp).entries[<<97>>] = IntOf(2)

\* ---- the lexer
\* The table of a mode, and the mode after a sequence of emitted opcodes: A,
\* toggled by every Onew and Oadd.
TableOf(m) == IF m = ModeA THEN opTableA ELSE opTableS

ModeAfter(ops) ==
  IF Cardinality({i \in DOMAIN ops : ops[i] \in {"Onew", "Oadd"}}) % 2 = 0
  THEN ModeA ELSE ModeS

\* A call of Next has read the table t: it returned the opcode of the first
\* remaining byte that t holds and consumed the input up to that byte, or,
\* with no such byte left, consumed everything and returned EOF.
NextReadWith(t) ==
  LET hits == {i \in 1..Len(reader) : reader[i] \in DOMAIN t}
      first == CHOOSE i \in hits : \A j \in hits : i <= j
  IN  IF hits # {}
      THEN /\ err' = ErrNil
           /\ ret' = t[reader[first]]
           /\ reader' = SubSeq(reader, first + 1, Len(reader))
           /\ emitted' = Append(emitted, t[reader[first]])
      ELSE /\ err' = EOF
           /\ reader' = <<>>
           /\ emitted' = emitted

\* C13: the lexer starts in mode A and toggles the mode at every Onew and
\* Oadd it emits: each Next looks the bytes up in table S after an odd
\* number of emitted Onew/Oadd, in table A after an even number.
C13_ModeTogglesOnObjectBoundaries ==
  [][ call'.name = "Next" => NextReadWith(TableOf(ModeAfter(emitted))) ]_vars

\* C14: in each table every one of the 23 opcodes has exactly one byte, so
\* that the reverse tables built at init are defined for every opcode:
\* showOp finds a byte for whatever opcode it is called with.
C14_TablesTotalOneToOne ==
  call.name = "showOp" =>
    /\ Cardinality({b \in DOMAIN opTableA : opTableA[b] = call.op}) = 1
    /\ Cardinality({b \in DOMAIN opTableS : opTableS[b] = call.op}) = 1
    /\ call.op \in DOMAIN reversedTableA
    /\ call.op \in DOMAIN reversedTableS
    /\ err = ErrNil

\* No byte stands for two opcodes and no opcode has two bytes; every opcode
\* but Itou has a byte in each table.
C14_TablesOneToOneButForItou ==
  call.name = "showOp" =>
    /\ Cardinality({b \in DOMAIN opTableA : opTableA[b] = call.op}) =
         (IF call.op = "Itou" THEN 0 ELSE 1)
    /\ Cardinality({b \in DOMAIN opTableS : opTableS[b] = call.op}) =
         (IF call.op = "Itou" THEN 0 ELSE 1)
    /\ (err = ErrNil) <=> (call.op # "Itou")

SampleOps ==
  <<"Onew", "Snew", "Inew", "Iinc", "Sadd", "Inew", "Iadd", "Sadd", "Oadd">>

\* C15: each Next returns the opcode of the first remaining byte that the
\* table in use holds, table A, and consumes the input up to it, so the
\* opcodes come in input order, one per table byte, the other bytes skipped
\* without an error; with no table byte left Next returns EOF, and a caller
\* that keeps calling gets EOF in the end and from then on.  Of the input
\* ~?Bu!Ba!M every byte yields its opcode, nine in all.
C15_NextEmitsTableBytesInOrder ==
  /\ [][ call'.name = "Next" =>
           /\ NextReadWith(opTableA)
           /\ \A k \in 1..Len(SampleInput) :
                (/\ reader = SubSeq(SampleInput, k, Len(SampleInput))
                 /\ emitted = SubSeq(SampleOps, 1, k - 1)) =>
                  /\ err' = ErrNil
                  /\ reader' = SubSeq(SampleInput, k + 1, Len(SampleInput))
                  /\ emitted' = SubSeq(SampleOps, 1, k)
       ]_vars
  /\ <>[](err = EOF)

\* The input ~?Bu!Ba!M has been read to its end: nine opcodes, then EOF.
C15_Witness ==
  /\ call.name = "Next"
  /\ err = EOF
  /\ reader = <<>>
  /\ emitted = SampleOps
  /\ Len(emitted) = Len(SampleInput)

\* C16: for every opcode and mode, showOp(m, op) returns the byte that mode
\* m's table gives op, and readOp(m, showOp(m, op)) = op.
C16_ShowOpInvertsReadOp ==
  [][ call'.name = "showOp" =>
        /\ err' = ErrNil
        /\ ret'.b \in DOMAIN TableOf(call'.m)
        /\ TableOf(call'.m)[ret'.b] = call'.op
        /\ readOp(call'.m, ret'.b) = [op |-> call'.op, ok |-> TRUE]
    ]_vars

\* In mode A, and for every opcode but Itou, showOp and readOp are inverse.
C16_ShowOpInvertsReadOpInModeA ==
  [][ (call'.name = "showOp" /\ call'.m = ModeA /\ call'.op # "Itou") =>
        /\ err' = ErrNil
        /\ opTableA[ret'.b] = call'.op
        /\ readOp(call'.m, ret'.b) = [op |-> call'.op, ok |-> TRUE]
    ]_vars

\* ---- the bridge
IsNilHost(h) == h.kind = "nil" \/ (h.kind \in {"ptr", "slice", "map"} /\ h.isnil)

\* C17: ToValue and ToValueByReflection convert a nil host value, a nil
\* pointer whose type declares MarshalWatson included, to Nil without calling
\* MarshalWatson, and any non-nil host value that declares MarshalWatson to
\* the result of MarshalWatson, whatever its shape.
C17_NilBeforeMarshalBeforeShape ==
  [][ call'.name \in {"ToValue", "ToValueByReflection"} =>
        /\ IsNilHost(call'.v) => (err' = ErrNil /\ ret' = Converted("Nil", <<>>))
        /\ (~IsNilHost(call'.v) /\ call'.v.marshaler # "none") =>
             (err' = ErrNil /\ ret' = Marshaled)
    ]_vars

\* The nil interface and the nil pointers, slices and maps whose type
\* declares no MarshalWatson convert to Nil; every value whose type declares
\* it, nil or not, is handed to MarshalWatson.
C17_MarshalBeforeTypedNil ==
  [][ call'.name \in {"ToValue", "ToValueByReflection"} =>
        /\ (IsNilHost(call'.v) /\ call'.v.marshaler = "none") =>
             (err' = ErrNil /\ ret' = Converted("Nil", <<>>))
        /\ call'.v.marshaler # "none" =>
             \/ err' = ErrNil /\ ret' = Marshaled
             \/ err' = Panic /\ call'.v.kind = "ptr" /\ call'.v.isnil
    ]_vars

\* ---- errors and frames
\* C18: whatever the stack holds, the minimum Int and shift amounts of 64
\* and more as operands of Isht included, Feed returns nil or one of
\* StackEmpty, StackOverflow and TypeMismatch, and never panics.
C18_FeedNeverAborts ==
  [][ call'.name = "Feed" =>
        err' \in {ErrNil, ErrStackEmpty, ErrMaximumStackSizeExceeded, ErrTypeMismatch}
    ]_vars

\* Feed returns nil or one of the three errors unless Isht finds the minimum
\* Int on top of an Int, and then it panics.
C18_FeedAbortsOnlyOnMinimumShift ==
  [][ call'.name = "Feed" =>
        IF call'.ops = <<"Isht">> /\ IsInt(sp) /\ IsInt(sp - 1) /\ stack[sp].bits = MinInt64
        THEN err' = Panic
        ELSE err' \in {ErrNil, ErrStackEmpty, ErrMaximumStackSizeExceeded, ErrTypeMismatch}
    ]_vars

\* C19: a Feed that returns StackOverflow leaves sp and every slot as they
\* were; it is a pushing opcode or Gdup, on a full stack.
C19_OverflowLeavesStackUnchanged ==
  [][ (call'.name = "Feed" /\ err' = ErrMaximumStackSizeExceeded) =>
        /\ sp' = sp
        /\ \A i \in 0..(Capacity - 1) : NewSlot(i) = Slot(i)
        /\ \A i \in 0..(Capacity - 1) : stack'[i].kind = stack[i].kind
        /\ sp = Capacity - 1
        /\ call'.ops[1] \in PushOnly \cup {"Gdup"}
    ]_vars

\* Gdup has failed on a full stack with a String on top.
C19_Witness ==
  /\ call = [name |-> "Feed", ops |-> <<"Gdup">>]
  /\ err = ErrMaximumStackSizeExceeded
  /\ sp = Capacity - 1
  /\ \A i \in 0..(Capacity - 1) : stack[i].kind = "String"

\* The change of depth of each opcode, and the number of values it pops.
DepthChange(o) ==
  CASE o \in PushOnly \cup {"Gdup"} -> 1
    [] o \in {"Iinc", "Ishl", "Ineg", "Itof", "Itou", "Fneg", "Bneg", "Gswp"} -> 0
    [] o \in {"Iadd", "Isht", "Sadd", "Aadd", "Gpop"} -> -1
    [] o = "Oadd" -> -2

Consumed(o) ==
  CASE o \in PushOnly -> 0
    [] o \in {"Gdup", "Gpop"} -> 1
    [] o = "Gswp" -> 2
    [] OTHER -> Len(Expect(o))

\* C20: a successful Feed of opcode o changes sp by DepthChange(o) and leaves
\* the slots below the values it pops as they were; after every call the
\* slots above sp are empty.
C20_DepthChangeIsFixed ==
  [][ /\ \A o \in Ops :
           (Fed(o) /\ err' = ErrNil) =>
             /\ sp' = sp + DepthChange(o)
             /\ \A i \in 0..(sp - Consumed(o)) : NewSlot(i) = Slot(i)
      /\ \A i \in (sp' + 1)..(Capacity - 1) : stack'[i] = Null
    ]_vars

\* Oadd has taken three values and left one, the two slots above it empty.
C20_Witness ==
  /\ call = [name |-> "Feed", ops |-> <<"Oadd">>]
  /\ err = ErrNil
  /\ sp = Capacity - 3
  /\ stack[sp].kind = "Object"
  /\ stack[sp + 1] = Null
  /\ stack[sp + 2] = Null

====
